---------------------------- MODULE Spec2Model ----------------------------
(***************************************************************************)
(* Model of the key bindings tab (src/src/keybindingstab.ts): the element  *)
(* EtKeyBindingsTab, its Vue model data, the two managers it listens to    *)
(* (ConfigManager, KeyBindingManager) and the deferred model watcher that  *)
(* writes the user's choice of key bindings file back into the config.     *)
(*                                                                         *)
(* Vocabulary of the specification -> code:                                *)
(*   config broker / snapshot   ConfigManager / Config                     *)
(*   key-binding broker         KeyBindingManager                          *)
(*   presentation model         ModelData (this._data)                     *)
(*   selectedProfile            selectedKeyBindings                        *)
(*   availableProfiles          keyBindingsFiles                           *)
(*   bindingsRevision           keyBindingsContextsStamp                   *)
(*   onConfigChanged            the listener closure of setConfigManager   *)
(*   onBindingsChanged          _onKeyBindingChange                        *)
(*   selectProfile              v-model write + deferred _dataChanged      *)
(*   submit / currentSnapshot   setConfig / getConfig                      *)
(***************************************************************************)
EXTENDS Integers, Sequences, FiniteSets, TLC

\* ----------------------------------------------------------------- bounds
\* Longest list of key bindings files a config carries.
MaxProfiles == 2
\* Largest clock reading Date.now() returns.
MaxTime == 1
\* Largest number of listener entries one config manager holds for the tab.
MaxListeners == 2
\* Largest number of calls of EtKeyBindingsTab.init().
MaxInitCalls == 3
\* Longest shortcut code, in tokens joined by "+".
MaxTokens == 3
\* Largest number of key bindings of one context.
MaxBindings == 3

\* ------------------------------------------------------------ value sets
\* File names of key bindings files; NoFile is the empty string.
Names == {"a", "b"}
NoFile == ""

\* The config managers and key binding managers the tab can be given.
CMs == {1, 2}
KMs == {1, 2}
\* The null reference of _configManager / _keyBindingManager.
NullRef == 0

\* Lists of key bindings files without repetition, at most MaxProfiles long.
\* An entry (config.KeyBindingInfo) is represented by its filename.
ProfileLists ==
  { s \in UNION { [1..n -> Names] : n \in 0..MaxProfiles } :
      \A i, j \in DOMAIN s : i # j => s[i] # s[j] }

\* The filenames of a list of key bindings files.
Filenames(files) == { files[i] : i \in DOMAIN files }

\* getConfig() before a config was loaded returns null.
NullConfig ==
  [isNull |-> TRUE, keyBindingsFilename |-> NoFile, keyBindingsFiles |-> << >>]

\* The configs the rest of the application stores: the selected file is one
\* of the listed files, or none is selected yet.
StoredConfigs ==
  { [isNull |-> FALSE, keyBindingsFilename |-> f, keyBindingsFiles |-> files] :
      files \in ProfileLists, f \in Names \cup {NoFile} }

WellFormed(c) ==
  ~c.isNull /\ c.keyBindingsFilename \in Filenames(c.keyBindingsFiles) \cup {NoFile}

ExternalConfigs == { c \in StoredConfigs : WellFormed(c) } \cup {NullConfig}

\* ----------------------------------------------------------------- state
VARIABLES
  configs,          \* config manager -> its current Config (getConfig())
  cfgListeners,     \* config manager -> number of listener entries keyed by the tab
  notifyQ,          \* config manager -> a change notification is still to be dispatched
  kbListeners,      \* key binding manager -> number of listener entries keyed by the tab
  configManager_,   \* this._configManager
  keyBindingManager_, \* this._keyBindingManager
  data,             \* this._data (ModelData)
  vm,               \* this._vm exists and watches $data
  attached,         \* the element is in the document
  watchPending,     \* the deferred $data watcher is queued
  userSel,          \* the file the user picked, until the watcher has run
  filesAlias,       \* the manager whose current keyBindingsFiles array this._data holds
  last,             \* the last operation and what it did
  registered,       \* the module's flag `registered`
  registrations,    \* number of calls of document.registerElement
  initCalls,        \* number of calls of EtKeyBindingsTab.init()
  fmt               \* the formatters' platform, labels, input and output

\* The tab, its managers and what is observed of them.
tabVars == << configs, cfgListeners, notifyQ, kbListeners, configManager_,
              keyBindingManager_, data, vm, attached, watchPending, userSel,
              filesAlias, last >>

\* The module's registration flag and the formatting functions.
pureVars == << registered, registrations, initCalls, fmt >>

vars == << tabVars, pureVars >>

\* No selection of the user is waiting for the watcher.
NoSel == "-"

\* No formatter has been called.
NoFormat == [fn |-> "none"]

\* The record of the last operation: its name, whether an error left it,
\* whether it called setConfig, the user's selection it consumed and the
\* manager it was called with or by.
Done(op, err, sub, sel, mgr) == [op |-> op, err |-> err, sub |-> sub, sel |-> sel, mgr |-> mgr]
Did(op, err, mgr) == Done(op, err, FALSE, NoSel, mgr)

\* ------------------------------------------------------------- the code
\* Date.now(): a reading not before the previous one.
DateNow(prev) == prev..MaxTime

\* _initProperties
_initProperties ==
  [selectedKeyBindings |-> NoFile, keyBindingsFiles |-> << >>,
   keyBindingsContextsStamp |-> 0]

\* _setConfig with the selected file updated only when the list was not.
_setConfigElse(d, config) ==
  IF Len(d.keyBindingsFiles) # Len(config.keyBindingsFiles)
    THEN [d EXCEPT !.keyBindingsFiles = config.keyBindingsFiles]
    ELSE [d EXCEPT !.selectedKeyBindings = config.keyBindingsFilename]

\* _setConfig with the lists compared by value.
_setConfigByValue(d, config) ==
  [d EXCEPT !.keyBindingsFiles = config.keyBindingsFiles,
            !.selectedKeyBindings = config.keyBindingsFilename]

\* _setConfig: the list is replaced only when its length differs.
_setConfig(d, config) ==
  LET d1 == IF Len(d.keyBindingsFiles) # Len(config.keyBindingsFiles)
              THEN [d EXCEPT !.keyBindingsFiles = config.keyBindingsFiles]
              ELSE d
  IN IF d1.selectedKeyBindings # config.keyBindingsFilename
       THEN [d1 EXCEPT !.selectedKeyBindings = config.keyBindingsFilename]
       ELSE d1

\* _setConfig dereferences config.systemConfig: a null config throws.
_setConfigThrows(config) == config.isNull

\* The listener closure registered by setConfigManager on manager b, run
\* with b's config c: () => this._setConfig(configManager.getConfig()).
ConfigListener(d, c) == IF _setConfigThrows(c) THEN d ELSE _setConfig(d, c)

\* _setConfig stores config.systemConfig.keyBindingsFiles itself (no copy):
\* the manager b whose array the model holds after _setConfig ran with b's
\* config, alias being the manager whose array it held before.
_setConfigAlias(alias, d, config, b) ==
  IF Len(d.keyBindingsFiles) # Len(config.keyBindingsFiles) THEN b ELSE alias

\* The same for the listener closure.
ConfigListenerAlias(alias, d, c, b) ==
  IF _setConfigThrows(c) THEN alias ELSE _setConfigAlias(alias, d, c, b)

\* _.cloneDeep(this._configManager.getConfig()): the config handed to
\* setConfig of manager b shares no array with the former one, so a reference
\* to the former array is none to the manager's current one.
CloneDeep(alias, b) == IF alias = b THEN NullRef ELSE alias

\* _dataChanged without the write-back test.
_dataChangedWritesAlways(cur, newVal) == TRUE

\* _dataChanged with the write-back test inverted.
_dataChangedWritesNot(cur, newVal) ==
  cur.keyBindingsFilename = newVal.selectedKeyBindings

\* _dataChanged: the write-back test.
_dataChangedWrites(cur, newVal) ==
  cur.keyBindingsFilename # newVal.selectedKeyBindings

\* _dataChanged building the config from the model's data.
_dataChangedConfigFromModel(cur, newVal) ==
  [cur EXCEPT !.keyBindingsFilename = newVal.selectedKeyBindings,
              !.keyBindingsFiles = newVal.keyBindingsFiles]

\* _dataChanged: the config it hands to setConfig.
_dataChangedConfig(cur, newVal) ==
  [cur EXCEPT !.keyBindingsFilename = newVal.selectedKeyBindings]

\* The $data watcher (deep, sync: false) is queued by a change of the data.
Watch(d, d2) == vm /\ d # d2

\* -------------------------------------------------- managers' registries
\* registerChangeListener(key, onChange): one more entry for the key.
RegisterChangeListener(n) == n + 1
\* unregisterChangeListener(key): every entry of the key is removed.
UnregisterChangeListener(n) == 0
\* setConfig(c) of manager b by the application stores a new config object.
Stores(alias, b) == IF alias = b THEN NullRef ELSE alias

\* The state after createdCallback. The managers of cms hold any config of
\* cfgs; a manager the tab is never given holds the first-run config.
InitOver(cms, cfgs) ==
  /\ configs \in [CMs -> cfgs \cup {NullConfig}]
  /\ \A b \in CMs : IF b \in cms THEN configs[b] \in cfgs ELSE configs[b] = NullConfig
  /\ cfgListeners = [b \in CMs |-> 0]
  /\ notifyQ = [b \in CMs |-> FALSE]
  /\ kbListeners = [k \in KMs |-> 0]
  /\ configManager_ = NullRef
  /\ keyBindingManager_ = NullRef
  /\ data = _initProperties
  /\ vm = FALSE
  /\ attached = FALSE
  /\ watchPending = FALSE
  /\ userSel = NoSel
  /\ filesAlias = NullRef
  /\ last = Did("createdCallback", FALSE, NullRef)
  /\ registered = FALSE
  /\ registrations = 0
  /\ initCalls = 0

\* setKeyBindingManager(newKeyBindingManager)
SetKeyBindingManager(k) ==
  /\ LET un == IF keyBindingManager_ # NullRef
                 THEN [kbListeners EXCEPT ![keyBindingManager_] = UnregisterChangeListener(@)]
                 ELSE kbListeners
     IN kbListeners' = IF k # NullRef
                         THEN [un EXCEPT ![k] = RegisterChangeListener(@)]
                         ELSE un
  /\ keyBindingManager_' = k
  /\ last' = Did("setKeyBindingManager", FALSE, k)
  /\ UNCHANGED << configs, cfgListeners, notifyQ, configManager_, data, vm,
                  attached, watchPending, userSel, filesAlias >>
  /\ UNCHANGED pureVars

\* setConfigManager(configManager)
SetConfigManager(b) ==
  /\ cfgListeners[b] < MaxListeners
  /\ configManager_' = b
  /\ cfgListeners' = [cfgListeners EXCEPT ![b] = RegisterChangeListener(@)]
  /\ data' = ConfigListener(data, configs[b])
  /\ watchPending' = (watchPending \/ Watch(data, data'))
  /\ last' = Did("setConfigManager", _setConfigThrows(configs[b]), b)
  /\ filesAlias' = ConfigListenerAlias(filesAlias, data, configs[b], b)
  /\ UNCHANGED << configs, notifyQ, kbListeners, keyBindingManager_, vm,
                  attached, userSel >>
  /\ UNCHANGED pureVars

\* attachedCallback: the Vue instance is created on this._data and watches it.
AttachedCallback ==
  /\ ~attached
  /\ attached' = TRUE
  /\ vm' = TRUE
  /\ last' = Did("attachedCallback", FALSE, NullRef)
  /\ UNCHANGED << configs, cfgListeners, notifyQ, kbListeners, configManager_,
                  keyBindingManager_, data, watchPending, userSel,
                  filesAlias >>
  /\ UNCHANGED pureVars

\* detachedCallback
DetachedCallback ==
  /\ attached
  /\ attached' = FALSE
  /\ cfgListeners' = IF configManager_ # NullRef
                       THEN [cfgListeners EXCEPT ![configManager_] = UnregisterChangeListener(@)]
                       ELSE cfgListeners
  /\ kbListeners' = IF keyBindingManager_ # NullRef
                      THEN [kbListeners EXCEPT ![keyBindingManager_] = UnregisterChangeListener(@)]
                      ELSE kbListeners
  /\ last' = Did("detachedCallback", FALSE, NullRef)
  /\ UNCHANGED << configs, notifyQ, configManager_, keyBindingManager_, data,
                  vm, watchPending, userSel, filesAlias >>
  /\ UNCHANGED pureVars

\* _onKeyBindingChange, with now the reading of Date.now()
_onKeyBindingChange(d, now) == [d EXCEPT !.keyBindingsContextsStamp = now]

\* A key binding manager notifies its listeners of a change of the bindings.
KeyBindingChange(k) ==
  /\ IF kbListeners[k] > 0
       THEN \E now \in DateNow(data.keyBindingsContextsStamp) :
              /\ data' = _onKeyBindingChange(data, now)
              /\ last' = Did("onKeyBindingChange", FALSE, k)
       ELSE /\ data' = data
            /\ last' = Did("keyBindingsChanged", FALSE, k)
  /\ watchPending' = (watchPending \/ Watch(data, data'))
  /\ UNCHANGED << configs, cfgListeners, notifyQ, kbListeners, configManager_,
                  keyBindingManager_, vm, attached, userSel,
                  filesAlias >>
  /\ UNCHANGED pureVars

\* ConfigManager.setConfig(c) on manager b as seen by the tab: the config is
\* stored, and the listeners are called inside the call (sync) or later.
\* The tab's data after the dispatch:
Dispatched(b, c, d) == IF cfgListeners[b] > 0 THEN ConfigListener(d, c) ELSE d

\* The array the tab's data holds after the dispatch:
DispatchedAlias(b, c, d, alias) ==
  IF cfgListeners[b] > 0 THEN ConfigListenerAlias(alias, d, c, b) ELSE alias

\* an error of the tab's listener leaves the dispatch:
DispatchThrows(b, c) == cfgListeners[b] > 0 /\ _setConfigThrows(c)

\* Another part of the application stores config c in manager b.
ConfigChange(b, c, sync) ==
  /\ configs' = [configs EXCEPT ![b] = c]
  /\ IF sync
       THEN /\ data' = Dispatched(b, c, data)
            /\ filesAlias' = DispatchedAlias(b, c, data, Stores(filesAlias, b))
            /\ notifyQ' = notifyQ
            /\ last' = Did(IF cfgListeners[b] > 0 THEN "onConfigChanged" ELSE "setConfig",
                           DispatchThrows(b, c), b)
       ELSE /\ data' = data
            /\ filesAlias' = Stores(filesAlias, b)
            /\ notifyQ' = [notifyQ EXCEPT ![b] = TRUE]
            /\ last' = Did("setConfig", FALSE, b)
  /\ watchPending' = (watchPending \/ Watch(data, data'))
  /\ UNCHANGED << cfgListeners, kbListeners, configManager_, keyBindingManager_,
                  vm, attached, userSel >>
  /\ UNCHANGED pureVars

\* Manager b dispatches a change notification it had deferred.
ConfigNotify(b) ==
  /\ notifyQ[b]
  /\ notifyQ' = [notifyQ EXCEPT ![b] = FALSE]
  /\ data' = Dispatched(b, configs[b], data)
  /\ watchPending' = (watchPending \/ Watch(data, data'))
  /\ last' = Did(IF cfgListeners[b] > 0 THEN "onConfigChanged" ELSE "dispatch",
                 DispatchThrows(b, configs[b]), b)
  /\ filesAlias' = DispatchedAlias(b, configs[b], data, filesAlias)
  /\ UNCHANGED << configs, cfgListeners, kbListeners, configManager_,
                  keyBindingManager_, vm, attached, userSel >>
  /\ UNCHANGED pureVars

\* The user picks option f of the select element (v-model="selectedKeyBindings").
UserSelect(f) ==
  /\ attached /\ vm
  /\ f \in Filenames(data.keyBindingsFiles)
  /\ f # data.selectedKeyBindings
  /\ data' = [data EXCEPT !.selectedKeyBindings = f]
  /\ watchPending' = TRUE
  /\ userSel' = f
  /\ last' = Did("select", FALSE, NullRef)
  /\ UNCHANGED << configs, cfgListeners, notifyQ, kbListeners, configManager_,
                  keyBindingManager_, vm, attached, filesAlias >>
  /\ UNCHANGED pureVars

\* _dataChanged dereferences this._configManager and the clone of its config.
_dataChangedThrows ==
  \/ configManager_ = NullRef
  \/ configs[configManager_].isNull

\* The queued $data watcher runs _dataChanged(newVal) with the data as it is now.
DataChanged ==
  /\ watchPending
  /\ userSel' = NoSel
  /\ IF _dataChangedThrows
       THEN /\ watchPending' = FALSE
            /\ last' = Done("_dataChanged", TRUE, FALSE, userSel, configManager_)
            /\ UNCHANGED << configs, notifyQ, data, filesAlias >>
       ELSE LET cm == configManager_
                cur == configs[cm]
            IN IF _dataChangedWrites(cur, data)
                 THEN \E sync \in BOOLEAN :
                        LET newConfig == _dataChangedConfig(cur, data)
                        IN /\ configs' = [configs EXCEPT ![cm] = newConfig]
                           /\ IF sync
                                THEN /\ data' = Dispatched(cm, newConfig, data)
                                     /\ filesAlias' = DispatchedAlias(cm, newConfig, data,
                                                                      CloneDeep(filesAlias, cm))
                                     /\ notifyQ' = notifyQ
                                ELSE /\ data' = data
                                     /\ filesAlias' = CloneDeep(filesAlias, cm)
                                     /\ notifyQ' = [notifyQ EXCEPT ![cm] = TRUE]
                           /\ watchPending' = Watch(data, data')
                           /\ last' = Done("_dataChanged", FALSE, TRUE, userSel, cm)
                 ELSE /\ watchPending' = FALSE
                      /\ last' = Done("_dataChanged", FALSE, FALSE, userSel, cm)
                      /\ UNCHANGED << configs, notifyQ, data, filesAlias >>
  /\ UNCHANGED << cfgListeners, kbListeners, configManager_, keyBindingManager_,
                  vm, attached >>
  /\ UNCHANGED pureVars

\* The steps of the tab and of its environment, over the config managers
\* cms, the key binding managers kms and the stored configs cfgs.
Step(cms, kms, cfgs) ==
  \/ \E k \in kms \cup {NullRef} : SetKeyBindingManager(k)
  \/ \E b \in cms : SetConfigManager(b)
  \/ AttachedCallback
  \/ DetachedCallback
  \/ \E k \in kms : KeyBindingChange(k)
  \/ \E b \in cms, c \in cfgs, sync \in BOOLEAN : ConfigChange(b, c, sync)
  \/ \E b \in cms : ConfigNotify(b)
  \/ \E f \in Names : UserSelect(f)
  \/ DataChanged

\* One config manager and one key binding manager, every config.
Init == InitOver({1}, ExternalConfigs) /\ fmt = NoFormat
Next == Step({1}, {1}, ExternalConfigs)
Spec == Init /\ [][Next]_vars

\* Two managers of each kind, which the tab is given in turn; the configs
\* differ in the selected file only.
LifecycleConfigs == { c \in ExternalConfigs : ~c.isNull /\ c.keyBindingsFiles = << "a" >> }
InitLifecycle == InitOver(CMs, LifecycleConfigs) /\ fmt = NoFormat
NextLifecycle == Step(CMs, KMs, LifecycleConfigs)
SpecLifecycle == InitLifecycle /\ [][NextLifecycle]_vars

\* ---------------------------------------- one selection and its echo
\* Nothing is queued: no watcher callback and no notification of a config
\* manager.
Quiescent == ~watchPending /\ \A b \in CMs : ~notifyQ[b]

\* An attached tab with config manager 1 and key binding manager 1 at rest.
\* With a listener registered the model shows the stored selection and a list
\* as long as the stored one (_setConfig has run for every change); without
\* one (after detachedCallback and a second attachedCallback) the model is
\* the one of an earlier config.
InitEcho ==
  /\ configs \in [CMs -> ExternalConfigs]
  /\ ~configs[1].isNull
  /\ configs[2] = NullConfig
  /\ cfgListeners \in [CMs -> 0..MaxListeners]
  /\ cfgListeners[2] = 0
  /\ notifyQ = [b \in CMs |-> FALSE]
  /\ kbListeners = [k \in KMs |-> IF k = 1 THEN 1 ELSE 0]
  /\ configManager_ = 1
  /\ keyBindingManager_ = 1
  /\ data \in [selectedKeyBindings : Names \cup {NoFile},
               keyBindingsFiles : ProfileLists,
               keyBindingsContextsStamp : 0..MaxTime]
  /\ IF cfgListeners[1] > 0
       THEN /\ data.selectedKeyBindings = configs[1].keyBindingsFilename
            /\ Len(data.keyBindingsFiles) = Len(configs[1].keyBindingsFiles)
       ELSE data.selectedKeyBindings \in Filenames(data.keyBindingsFiles) \cup {NoFile}
  /\ vm = TRUE
  /\ attached = TRUE
  /\ watchPending = FALSE
  /\ userSel = NoSel
  /\ filesAlias \in {NullRef, 1}
  /\ filesAlias = 1 => /\ data.keyBindingsFiles = configs[1].keyBindingsFiles
                        /\ data.selectedKeyBindings = configs[1].keyBindingsFilename
  /\ last = Did("attachedCallback", FALSE, NullRef)
  /\ registered = FALSE
  /\ registrations = 0
  /\ initCalls = 0
  /\ fmt = NoFormat

\* The user picks a file once; then only the watcher and the config manager's
\* own notification run.
SelectOnce(f) == last.op = "attachedCallback" /\ UserSelect(f)
NextEcho ==
  \/ \E f \in Names : SelectOnce(f)
  \/ DataChanged
  \/ \E b \in CMs : ConfigNotify(b)
\* Vue flushes its queue of watchers on the next tick and the config manager
\* delivers a notification it has queued.
FairEcho == WF_vars(DataChanged) /\ WF_vars(\E b \in CMs : ConfigNotify(b))
SpecEcho == InitEcho /\ [][NextEcho]_vars /\ FairEcho

\* One selection of the user while the application changes the config.
NextRace ==
  \/ NextEcho
  \/ \E c \in ExternalConfigs \ {NullConfig}, sync \in BOOLEAN : ConfigChange(1, c, sync)
SpecRace == InitEcho /\ [][NextRace]_vars

\* ------------------------------------- registration and the formatters
\* A string is the sequence of its characters.
Cmd == << "C", "m", "d" >>
Shift == << "S", "h", "i", "f", "t" >>
Alt == << "A", "l", "t" >>
Ctrl == << "C", "t", "r", "l" >>
\* The characters ⌘, ⇧ and ⌥.
GlyphCmd == "u2318"
GlyphShift == "u21E7"
GlyphAlt == "u2325"

\* process.platform
Platforms == {"darwin", "linux", "win32"}

\* Parts of a shortcut code: the modifiers, a key, the empty part (as in
\* "Cmd++") and a part that differs from a modifier by case only.
Tokens == { Cmd, Shift, Alt, Ctrl, << "K" >>, << >>, << "c", "m", "d" >> }

\* The parts joined by "+".
RECURSIVE JoinPlus(_)
JoinPlus(ts) ==
  IF Len(ts) = 1 THEN ts[1] ELSE ts[1] \o << "+" >> \o JoinPlus(Tail(ts))

\* code.split(/\+/g)
RECURSIVE split(_)
split(code) ==
  IF \A i \in 1..Len(code) : code[i] # "+"
    THEN << code >>
    ELSE LET i == CHOOSE j \in 1..Len(code) :
                    code[j] = "+" /\ \A k \in 1..(j - 1) : code[k] # "+"
         IN << SubSeq(code, 1, i - 1) >> \o split(SubSeq(code, i + 1, Len(code)))

\* The switch of formatShortcut.
mapPart(p) ==
  CASE p = Cmd -> << GlyphCmd >>
    [] p = Shift -> << GlyphShift >>
    [] p = Alt -> << GlyphAlt >>
    [] p = Ctrl -> << "^" >>
    [] OTHER -> p

\* parts.join("")
RECURSIVE join(_)
join(parts) == IF parts = << >> THEN << >> ELSE Head(parts) \o join(Tail(parts))

\* formatShortcut that joins the parts by "+" again.
formatShortcutJoinPlus(code, platform) ==
  IF platform # "darwin" THEN code
  ELSE JoinPlus([i \in 1..Len(split(code)) |-> mapPart(split(code)[i])])

formatShortcut(code, platform) ==
  IF platform # "darwin" THEN code
  ELSE LET parts == split(code)
       IN join([i \in 1..Len(parts) |-> mapPart(parts[i])])

\* The characters of the command codes and labels in the order of their
\* UTF-16 code units, by which < and > compare strings.
Alphabet == << "C", "Z", "c", "m", "o", "p", "y", "z" >>
CharCode(c) == CHOOSE i \in 1..Len(Alphabet) : Alphabet[i] = c

\* nameA < nameB on strings.
RECURSIVE Less(_, _)
Less(s, t) ==
  IF t = << >> THEN FALSE
  ELSE IF s = << >> THEN TRUE
  ELSE IF CharCode(Head(s)) < CharCode(Head(t)) THEN TRUE
  ELSE IF CharCode(Head(s)) > CharCode(Head(t)) THEN FALSE
  ELSE Less(Tail(s), Tail(t))

\* Command codes, and the texts humanText.commands has for them; the empty
\* text stands for a code without an entry.
CommandCodes == { << "c", "o", "p", "y" >>, << "z", "o", "o", "m" >>, << "c", "o" >> }
NoLabel == << >>
Labels == { NoLabel, << "C", "o", "p", "y" >>, << "Z", "o", "o", "m" >> }
LabelTables == [CommandCodes -> Labels]

\* keybindingmanager.KeyBinding: a command and its shortcut.
KeyBindings == [command : CommandCodes, shortcut : { << "K" >>, JoinPlus(<< Cmd, << "K" >> >>) }]
KeyBindingSeqs == UNION { [1..n -> KeyBindings] : n \in 0..MaxBindings }

commandName(commands, commandCode) ==
  LET str == commands[commandCode]
  IN IF str # NoLabel THEN str ELSE commandCode

\* The comparison function with its results exchanged.
compareReversed(commands, a, b) ==
  LET nameA == commandName(commands, a.command)
      nameB == commandName(commands, b.command)
  IN IF Less(nameA, nameB) THEN 1 ELSE IF Less(nameB, nameA) THEN -1 ELSE 0

\* The comparison function of bindings.sort.
compare(commands, a, b) ==
  LET nameA == commandName(commands, a.command)
      nameB == commandName(commands, b.command)
  IN IF Less(nameA, nameB) THEN -1 ELSE IF Less(nameB, nameA) THEN 1 ELSE 0

\* Array.prototype.sort of a short array: insertion sort, each element put
\* behind the last one that the comparison does not place after it.
InsertSorted(commands, sorted, x) ==
  LET notAfter == { j \in 1..Len(sorted) : compare(commands, sorted[j], x) <= 0 }
      at == IF notAfter = {} THEN 0
            ELSE CHOOSE j \in notAfter : \A k \in notAfter : k <= j
  IN SubSeq(sorted, 1, at) \o << x >> \o SubSeq(sorted, at + 1, Len(sorted))

RECURSIVE sort(_, _)
sort(commands, s) ==
  IF s = << >> THEN << >>
  ELSE InsertSorted(commands, sort(commands, SubSeq(s, 1, Len(s) - 1)), s[Len(s)])

\* The rows of the table of formatKeyBindingsMapping: the three cells of each.
formatKeyBindingsMapping(commands, platform, keyBindings) ==
  LET bindings == sort(commands, keyBindings)
  IN [i \in 1..Len(bindings) |->
        [name |-> commandName(commands, bindings[i].command),
         shortcut |-> formatShortcut(bindings[i].shortcut, platform),
         code |-> bindings[i].command]]

\* Inputs of formatShortcut and of formatKeyBindingsMapping.
ShortcutInputs ==
  { [fn |-> "formatShortcut", platform |-> p, tokens |-> ts, code |-> JoinPlus(ts),
     done |-> FALSE, out |-> << >>] :
      p \in Platforms, ts \in UNION { [1..n -> Tokens] : n \in 1..MaxTokens } }
MappingInputs ==
  { [fn |-> "formatKeyBindingsMapping", platform |-> p, commands |-> t,
     keyBindings |-> bs, done |-> FALSE, out |-> << >>] :
      p \in {"darwin"}, t \in LabelTables, bs \in KeyBindingSeqs }

\* init() calling document.registerElement whatever `registered` is.
initRegistersAlways(reg) == TRUE
\* if (registered === false)
initRegisters(reg) == reg = FALSE

\* EtKeyBindingsTab.init()
init ==
  /\ initCalls < MaxInitCalls
  /\ initCalls' = initCalls + 1
  /\ IF initRegisters(registered)
       THEN /\ registrations' = registrations + 1
            /\ registered' = TRUE
       ELSE UNCHANGED << registered, registrations >>
  /\ UNCHANGED << fmt, tabVars >>

FormatShortcut ==
  /\ fmt.fn = "formatShortcut"
  /\ ~fmt.done
  /\ fmt' = [fmt EXCEPT !.done = TRUE, !.out = formatShortcut(fmt.code, fmt.platform)]
  /\ UNCHANGED << registered, registrations, initCalls, tabVars >>

FormatKeyBindingsMapping ==
  /\ fmt.fn = "formatKeyBindingsMapping"
  /\ ~fmt.done
  /\ fmt' = [fmt EXCEPT !.done = TRUE,
                        !.out = formatKeyBindingsMapping(fmt.commands, fmt.platform,
                                                         fmt.keyBindings)]
  /\ UNCHANGED << registered, registrations, initCalls, tabVars >>

\* The module is loaded, a tab is created, and some formatter is to be called.
InitPure ==
  /\ InitOver({1}, {[isNull |-> FALSE, keyBindingsFilename |-> "a",
                     keyBindingsFiles |-> << "a" >>]})
  /\ \/ fmt \in ShortcutInputs
     \/ fmt \in MappingInputs
NextPure == init \/ FormatShortcut \/ FormatKeyBindingsMapping
SpecPure == InitPure /\ [][NextPure]_vars

\* ------------------------------------------------------------ properties
\* The config manager the tab writes to, and its config.
Stored == configs[configManager_]

\* C1: when the watcher runs _dataChanged for a selection of the user that
\* is still in the model and equals the stored keyBindingsFilename, no
\* setConfig is called (no config and no pending notification changes) and
\* the model's selected file is the stored one afterwards.
C1_SelectStoredIsNoop ==
  [][ ( /\ last'.op = "_dataChanged"
        /\ userSel # NoSel
        /\ data.selectedKeyBindings = userSel
        /\ ~_dataChangedThrows
        /\ userSel = Stored.keyBindingsFilename )
      => ( /\ ~last'.sub
           /\ configs' = configs
           /\ notifyQ' = notifyQ
           /\ data'.selectedKeyBindings = Stored'.keyBindingsFilename
           /\ data'.selectedKeyBindings = userSel ) ]_vars

\* C1 witness: _dataChanged has run for a selection of the user equal to the
\* stored file, without a write.
C1_Witness ==
  /\ last.op = "_dataChanged" /\ ~last.err /\ ~last.sub
  /\ last.sel \in Names
  /\ data.selectedKeyBindings = last.sel
  /\ Stored.keyBindingsFilename = last.sel

\* C2: a selection of the user that is not a file of the stored list of key
\* bindings files is rejected with an error and nothing is written.
C2_UnknownProfileRejected ==
  ( /\ last.op = "_dataChanged"
    /\ last.sel # NoSel
    /\ last.mgr # NullRef
    /\ last.sel \notin Filenames(configs[last.mgr].keyBindingsFiles) )
  => (last.err /\ ~last.sub)

\* C3: after the tab's config listener has run for a manager whose config
\* has keyBindingsFilename x, the model's selected file is x.
C3_RoundTrip ==
  (last.op = "onConfigChanged" /\ ~last.err)
  => data.selectedKeyBindings = configs[last.mgr].keyBindingsFilename

\* C3 witness: the listener has run for a stored file "b".
C3_Witness ==
  /\ last.op = "onConfigChanged" /\ ~last.err
  /\ configs[last.mgr].keyBindingsFilename = "b"
  /\ data.selectedKeyBindings = "b"

\* C4: the model's selected file is empty or a file of the model's list.
C4_SelectedIsAvailable ==
  data.selectedKeyBindings \in Filenames(data.keyBindingsFiles) \cup {NoFile}

\* C5: every run of _onKeyBindingChange increases the stamp by exactly one.
C5_RevisionCounts ==
  [][ last'.op = "onKeyBindingChange"
      => data'.keyBindingsContextsStamp = data.keyBindingsContextsStamp + 1 ]_vars

\* C6: after attachedCallback the tab is registered with the config manager
\* and the key binding manager it was given, also on a second attach.
C6_AttachedIsSubscribed ==
  (last.op = "attachedCallback" /\ configManager_ # NullRef /\ keyBindingManager_ # NullRef)
  => (cfgListeners[configManager_] >= 1 /\ kbListeners[keyBindingManager_] >= 1)

\* C7: setConfigManager on a tab that is still registered with its config
\* manager fails and registers nothing.
C7_SecondAttachRejected ==
  [][ ( /\ last'.op = "setConfigManager"
        /\ configManager_ # NullRef
        /\ cfgListeners[configManager_] > 0 )
      => (last'.err /\ cfgListeners' = cfgListeners) ]_vars

\* C8: after detachedCallback no manager holds a listener entry of the tab.
C8_DetachedUnregistered ==
  last.op = "detachedCallback"
  => ( /\ \A b \in CMs : cfgListeners[b] = 0
       /\ \A k \in KMs : kbListeners[k] = 0 )

\* C9: no error leaves the tab's config listener or _onKeyBindingChange.
C9_HandlersNeverThrow ==
  last.op \in {"onConfigChanged", "onKeyBindingChange"} => ~last.err

C11_NoAlias == filesAlias = NullRef

\* The one-to-one maps of the positions 1..n onto themselves.
Orders(n) ==
  { p \in [1..n -> 1..n] : \A i, j \in 1..n : p[i] = p[j] => i = j }

\* C12: the rows formatKeyBindingsMapping produces are the input bindings in
\* some order, each with its command's text (the code when the command has no
\* text), its formatted shortcut and its code, and the texts never decrease
\* from one row to the next under the comparison of strings; [zoom, copy] with
\* the texts Zoom and Copy gives [copy, zoom].
C12_RowsSortedPermutation ==
  (fmt.fn = "formatKeyBindingsMapping" /\ fmt.done) =>
    LET rows == fmt.out
        given == fmt.keyBindings
        n == Len(given)
        Label(c) == IF fmt.commands[c] = NoLabel THEN c ELSE fmt.commands[c]
    IN /\ Len(rows) = n
       /\ \E p \in Orders(n) :
            \A i \in 1..n :
              /\ rows[i].code = given[p[i]].command
              /\ rows[i].name = Label(given[p[i]].command)
              /\ rows[i].shortcut = formatShortcut(given[p[i]].shortcut, fmt.platform)
       /\ \A i, j \in 1..n : i < j => ~Less(rows[j].name, rows[i].name)
       /\ ( /\ n = 2
            /\ given[1].command = << "z", "o", "o", "m" >>
            /\ given[2].command = << "c", "o", "p", "y" >>
            /\ fmt.commands[given[1].command] = << "Z", "o", "o", "m" >>
            /\ fmt.commands[given[2].command] = << "C", "o", "p", "y" >> )
          => /\ rows[1].code = << "c", "o", "p", "y" >>
             /\ rows[2].code = << "z", "o", "o", "m" >>

\* Three bindings given in decreasing order of their texts, one of them without
\* a text, have been put into rows.
C12_Witness ==
  /\ fmt.fn = "formatKeyBindingsMapping"
  /\ fmt.done
  /\ Len(fmt.keyBindings) = 3
  /\ fmt.out[1].code = fmt.keyBindings[3].command
  /\ fmt.out[3].code = fmt.keyBindings[1].command
  /\ Less(fmt.out[1].name, fmt.out[2].name)
  /\ Less(fmt.out[2].name, fmt.out[3].name)
  /\ fmt.out[1].name # fmt.out[1].code
  /\ fmt.out[3].name = fmt.out[3].code

\* The glyph of a modifier, the part itself otherwise.
Glyph(t) ==
  IF t = Cmd THEN << GlyphCmd >>
  ELSE IF t = Shift THEN << GlyphShift >>
  ELSE IF t = Alt THEN << GlyphAlt >>
  ELSE IF t = Ctrl THEN << "^" >>
  ELSE t

\* The glyphs of the parts, one after the other.
RECURSIVE Glyphs(_)
Glyphs(ts) == IF ts = << >> THEN << >> ELSE Glyph(Head(ts)) \o Glyphs(Tail(ts))

\* C13: formatShortcut returns the code as it is on every platform but darwin;
\* on darwin the result is the code's parts between the "+", in their order,
\* with Cmd, Shift, Alt and Ctrl replaced by their glyphs, every other part
\* left as it is and nothing between the parts; "Cmd+Shift+K" gives the two
\* glyphs and K on darwin.
C13_FormatShortcut ==
  (fmt.fn = "formatShortcut" /\ fmt.done) =>
    /\ fmt.platform # "darwin" => fmt.out = fmt.code
    /\ fmt.platform = "darwin" => fmt.out = Glyphs(fmt.tokens)
    /\ (fmt.platform = "darwin" /\ fmt.tokens = << Cmd, Shift, << "K" >> >>)
         => fmt.out = << GlyphCmd, GlyphShift, "K" >>
    /\ (fmt.platform = "linux" /\ fmt.tokens = << Cmd, Shift, << "K" >> >>)
         => fmt.out = << "C", "m", "d", "+", "S", "h", "i", "f", "t", "+", "K" >>

\* "Cmd+Shift+K" has been formatted on darwin.
C13_Witness ==
  /\ fmt.fn = "formatShortcut"
  /\ fmt.done
  /\ fmt.platform = "darwin"
  /\ fmt.code = << "C", "m", "d", "+", "S", "h", "i", "f", "t", "+", "K" >>
  /\ fmt.out = << GlyphCmd, GlyphShift, "K" >>

\* C14: init() registers the element on its first call and never again: the
\* first call sets `registered` and calls registerElement once, every later
\* call changes nothing.
C14_InitIdempotent ==
  [][ initCalls' # initCalls =>
        /\ registered'
        /\ registrations' = 1
        /\ initCalls >= 1 => UNCHANGED << registered, registrations, fmt, tabVars >> ]_vars

\* init() has been called more than twice and the element is registered once.
C14_Witness ==
  /\ initCalls > 2
  /\ registered
  /\ registrations = 1

\* C15: when the watcher runs _dataChanged for a selection of the user that
\* is still in the model and differs from the stored keyBindingsFilename,
\* setConfig is called once, on the tab's config manager, with the config
\* that manager stores at that moment in which only keyBindingsFilename is
\* replaced, by the file the user picked; no other manager's config changes.
C15_SubmitIsCurrentButFilename ==
  [][ ( /\ last'.op = "_dataChanged"
        /\ userSel # NoSel
        /\ data.selectedKeyBindings = userSel
        /\ ~_dataChangedThrows
        /\ userSel # Stored.keyBindingsFilename )
      => ( /\ last'.sub
           /\ ~last'.err
           /\ configManager_' = configManager_
           /\ Stored' = [Stored EXCEPT !.keyBindingsFilename = userSel]
           /\ \A b \in CMs : b # configManager_ => configs'[b] = configs[b] ) ]_vars

\* C15 witness: _dataChanged has written the user's file into a stored config
\* whose list of files is not the one the model shows.
C15_Witness ==
  /\ last.op = "_dataChanged" /\ ~last.err /\ last.sub
  /\ last.sel \in Names
  /\ Stored.keyBindingsFilename = last.sel
  /\ Stored.keyBindingsFiles # data.keyBindingsFiles
  /\ Len(Stored.keyBindingsFiles) > 0

\* C16: after one selection of the user from a state at rest, with the config
\* manager notifying inside setConfig or later, _dataChanged calls setConfig
\* at most once (only the callback that follows the selection does), the
\* notification of that setConfig is followed by no further call, and the tab
\* comes to rest with the model's selected file equal to the stored
\* keyBindingsFilename.
C16_EchoTerminates ==
  /\ [][last'.sub => last.op = "select"]_vars
  /\ [][(last.op = "onConfigChanged" /\ last'.op = "_dataChanged") => ~last'.sub]_vars
  /\ (last.op = "select")
       ~> [](Quiescent /\ data.selectedKeyBindings = Stored.keyBindingsFilename)

\* C16 witness: the user's selection was written by setConfig, the manager
\* has notified the tab afterwards, and all is at rest.
C16_Witness ==
  /\ last.op = "onConfigChanged"
  /\ ~last.err
  /\ Quiescent
  /\ data.selectedKeyBindings \in Names
  /\ data.selectedKeyBindings = Stored.keyBindingsFilename
  /\ filesAlias = NullRef

\* C17: _dataChanged calls setConfig only for a selection of the user: a
\* callback queued by a notification alone (a new stamp, a config change)
\* writes nothing.
C17_SubmitOnlyFromSelection ==
  (last.op = "_dataChanged" /\ last.sub) => last.sel # NoSel

\* C18: after the config listener has run, the model's list of key bindings
\* files equals the list of the config that manager stores.
C18_ListEqualsStored ==
  (last.op = "onConfigChanged" /\ ~last.err)
    => data.keyBindingsFiles = configs[last.mgr].keyBindingsFiles

\* C19: when the watcher runs _dataChanged for a selection of the user and the
\* file the user picked is not the stored keyBindingsFilename, setConfig is
\* called with it, whatever notification has run since the selection. (In
\* SpecRace the selection is made at rest, where a tab with a listener shows
\* the stored file, so that the file picked differs from the stored one.)
C19_SelectionNotLost ==
  [][ ( /\ last'.op = "_dataChanged"
        /\ userSel # NoSel
        /\ ~_dataChangedThrows
        /\ userSel # Stored.keyBindingsFilename )
      => ( /\ last'.sub
           /\ Stored'.keyBindingsFilename = userSel ) ]_vars

\* C20: while the tab is attached and has its two managers, each of them
\* holds exactly one listener of the tab.
C20_AttachedHasOneListenerEach ==
  (attached /\ configManager_ # NullRef /\ keyBindingManager_ # NullRef)
    => /\ cfgListeners[configManager_] = 1
       /\ kbListeners[keyBindingManager_] = 1

=============================================================================
